---- MODULE Spec2Model ----
(***************************************************************************)
(* dnstap-to-influxdb: the decode-and-fan-out pipeline (DnsTapDecoder) and *)
(* the CNAME-cloaking engine (CnameProcessor) with its list reloads.       *)
(*                                                                         *)
(* Six specifications share the module:                                    *)
(*   Spec        the CnameProcessor: traffic path, update handlers,        *)
(*               command loop and the unbound queue;                       *)
(*   SpecLoop    the command loop alone, on pre-queued commands;           *)
(*   SpecLists   getBlockedDomains applied to bounded list files;          *)
(*   SpecDecoder DnsTapDecoder.Run fanning frames out to the processors;   *)
(*   SpecStop    the whole pipeline from end of input to the exit of main; *)
(*   SpecCache   DnsTapDecoder.getHost and its address-to-host cache.      *)
(***************************************************************************)
EXTENDS Integers, Sequences, FiniteSets, TLC

VARIABLES
    \* ---- CnameProcessor (src/cnameprocessor.go:190-201)
    runMsg,          \* Run: the message received from proc.messages and
                     \* not yet enqueued
    commands,        \* proc.commands: chan *Command
    blockedCnames,   \* proc.blockedCnames: map[string]string
    blockedDomains,  \* proc.blockedDomains: map[string]bool (its key set)
    unboundChan,     \* proc.unbound.GetChannel()
    httpMutex,       \* proc.httpMutex: 0 when free, else the holding request
    handler,         \* one record per concurrent updateHandler call
    loop,            \* processCommands: position and locals of the loop
    \* ---- history of the CnameProcessor
    hist,
    \* ---- getBlockedDomains on its own
    listFiles, built,
    \* ---- DnsTapDecoder (src/unnamed/part_000:26-31)
    channel,         \* dec.channel: chan []byte
    channelClosed,   \* main closed dec.channel
    procChans,       \* the channel of each registered processor
    procClosed,      \* which of them Run has closed
    dec,             \* Run: position and locals
    dhist,           \* history of the decoder
    \* ---- shutdown (CnameProcessor.Run, cnameprocessor.go:257-274; main.go)
    run,             \* CnameProcessor.Run: its position
    serverClosed,    \* proc.httpServer.Shutdown was called
    commandsClosed,  \* close(proc.commands) was executed
    unboundClosed,   \* close(proc.unbound.GetChannel()) was executed
    done,            \* the tasks that have called wg.Done()
    main,            \* main: waiting on wg, or past wg.Wait()
    \* ---- getHost on its own (src/unnamed/part_000:78-95)
    ipToHost,        \* dec.ipToHost: map[string]*hostItem
    now,             \* time.Now()
    chist            \* history: the last call of getHost

engineVars == <<runMsg, commands, blockedCnames, blockedDomains,
                unboundChan, httpMutex, handler, loop, hist>>
listVars == <<listFiles, built>>
decoderVars == <<channel, channelClosed, procChans, procClosed, dec, dhist>>
stopVars == <<run, serverClosed, commandsClosed, unboundClosed, done, main>>
cacheVars == <<ipToHost, now, chist>>
vars == <<engineVars, listVars, decoderVars, stopVars, cacheVars>>

None == "none"
\* A nil pointer.
Nil == [nil |-> TRUE]

\* ------------------------------------------------------------------ bounds
BufferSize == 2      \* capacity of proc.messages, proc.commands, dec.channel
UnboundCap == 1      \* capacity of the unbound queue
MaxRecords == 1      \* traffic records received by the engine
MaxQueued == 3       \* commands queued when the loop starts (SpecLoop)
MaxReloads == 2      \* update requests served
MaxLines == 2        \* lines per list file
MaxFrames == 5       \* frames read into dec.channel
StopFrames == 2      \* frames read in the shutdown pipeline
StopReloads == 1     \* update requests served in the shutdown pipeline
MaxLookups == 3      \* calls of getHost
MaxTime == 4         \* half hours the clock moves on

\* --------------------------------------------------------------- utilities
Range(s) == {s[i] : i \in 1..Len(s)}
SeqsUpTo(S, n) == UNION {[1..k -> S] : k \in 0..n}
EmptyMap == [x \in {} |-> None]
MapPut(m, k, v) == [x \in DOMAIN m \cup {k} |-> IF x = k THEN v ELSE m[x]]
MapDelete(m, k) == [x \in DOMAIN m \ {k} |-> m[x]]

\* ------------------------------------------------------------ Go channels
\* ch <- v on a buffered channel blocks while the buffer is full.
\* (CanSendAlways: a send that does not wait for room; CanSendNever: a send
\* that finds no room.)
CanSendAlways(ch, cap) == TRUE
CanSendNever(ch, cap) == FALSE
CanSend(ch, cap) == Len(ch) < cap
Send(ch, v) == Append(ch, v)
\* for v := range ch ends once ch is closed and its buffer is empty.
\* (RangeDoneOnClose: the loop ends at the close, buffered values or not.)
RangeDoneOnClose(ch, closed) == closed
RangeDone(ch, closed) == closed /\ ch = <<>>
\* v := <-ch takes the oldest buffered value.
\* Receive gives the value and what stays buffered.
ReceiveNewest(ch) == [value |-> ch[Len(ch)], rest |-> SubSeq(ch, 1, Len(ch) - 1)]
Receive(ch) == [value |-> Head(ch), rest |-> Tail(ch)]

\* ============================================================ list files
\* A list file as loadRpzFile sees it: whether it can be opened and read, and
\* its lines.  A line is an optional `local-zone: "` prefix, then a text that
\* is a domain name (stem, with or without the final dot) or something the
\* pattern does not match (stem "#").
Stems == {"a.io", "b.io", "c.io"}
Line(lz, stem, dot) == [lz |-> lz, stem |-> stem, dot |-> dot]
File(status, lines) == [status |-> status, lines |-> lines]

\* re.FindStringSubmatch(line)[2]: the domain as written, or None.
RegexMatch(line) ==
    IF line.stem \in Stems
    THEN IF line.dot THEN line.stem \o "." ELSE line.stem
    ELSE None

\* strings.HasSuffix(domain, ".") for a text the pattern matched.
HasSuffixDot(line) == line.dot

\* The body of the scanner loop, over the lines still to be scanned.
RECURSIVE ScanLines(_, _)
ScanLines(lines, domains) ==
    IF lines = <<>> THEN domains
    ELSE LET line == Head(lines)
             match == RegexMatch(line)
             domain == IF ~HasSuffixDot(line) THEN match \o "." ELSE match
         IN  ScanLines(Tail(lines),
                       IF match # None THEN domains \cup {domain} ELSE domains)

\* loadRpzFile: (domains, err).  A file that does not exist or cannot be
\* opened gives the empty map and an error; a read error gives what was
\* scanned so far and an error.
loadRpzFile(file) ==
    IF file.status \in {"missing", "unreadable"}
    THEN [domains |-> {}, err |-> TRUE]
    ELSE [domains |-> ScanLines(file.lines, {}), err |-> file.status # "ok"]

\* for key := range *keysMap { (*destMap)[key] = true }
RECURSIVE addKeys(_, _)
addKeys(destMap, keysMap) ==
    IF keysMap = {} THEN destMap
    ELSE LET key == CHOOSE k \in keysMap : TRUE
         IN  addKeys(destMap \cup {key}, keysMap \ {key})

\* for key := range *keysMap { delete(*destMap, key) }
RECURSIVE removeKeys(_, _)
removeKeys(destMap, keysMap) ==
    IF keysMap = {} THEN destMap
    ELSE LET key == CHOOSE k \in keysMap : TRUE
         IN  removeKeys(destMap \ {key}, keysMap \ {key})

\* Variant: the allow list is applied before the supplementary deny list.
getBlockedDomainsAllowFirst(blockedFile, whitelistFile, blacklistFile) ==
    LET white == loadRpzFile(whitelistFile)
        black == loadRpzFile(blacklistFile)
        blocked == loadRpzFile(blockedFile)
    IN  IF white.err THEN white
        ELSE IF black.err THEN black
        ELSE IF blocked.err THEN blocked
        ELSE [domains |-> addKeys(removeKeys(blocked.domains, white.domains),
                                  black.domains),
              err |-> FALSE]

\* Variant: load errors are dropped, as when loadRpzFile returned no error.
getBlockedDomainsNoError(blockedFile, whitelistFile, blacklistFile) ==
    LET white == loadRpzFile(whitelistFile)
        black == loadRpzFile(blacklistFile)
        blocked == loadRpzFile(blockedFile)
    IN  [domains |-> removeKeys(addKeys(blocked.domains, black.domains),
                                white.domains),
         err |-> FALSE]

\* getBlockedDomains: the three loads in the order white, black, blocked, the
\* first error returned with that load's map; else blocked + black - white.
getBlockedDomains(blockedFile, whitelistFile, blacklistFile) ==
    LET white == loadRpzFile(whitelistFile)
        black == loadRpzFile(blacklistFile)
        blocked == loadRpzFile(blockedFile)
    IN  IF white.err THEN white
        ELSE IF black.err THEN black
        ELSE IF blocked.err THEN blocked
        ELSE [domains |-> removeKeys(addKeys(blocked.domains, black.domains),
                                     white.domains),
              err |-> FALSE]

\* The list files of the getBlockedDomains check: every file of at most
\* MaxLines lines over ListLines, every failure, and read errors after at most
\* one line.
ListLines == {Line(FALSE, "a.io", FALSE), Line(TRUE, "a.io", TRUE),
              Line(FALSE, "b.io", TRUE), Line(FALSE, "#", FALSE)}
ListFiles ==
    {File("ok", l) : l \in SeqsUpTo(ListLines, MaxLines)}
    \cup {File("missing", <<>>), File("unreadable", <<>>)}
    \cup {File("readerr", l) : l \in SeqsUpTo(ListLines, 1)}

ListsInit ==
    /\ listFiles \in [blocked : ListFiles, white : ListFiles, black : ListFiles]
    /\ built = <<>>

ListsIdle ==
    /\ listFiles = [blocked |-> File("ok", <<>>), white |-> File("ok", <<>>),
                    black |-> File("ok", <<>>)]
    /\ built = <<>>

\* One call of getBlockedDomains on the files.
BuildLists ==
    /\ built = <<>>
    /\ built' = <<getBlockedDomains(listFiles.blocked, listFiles.white,
                                    listFiles.black)>>
    /\ UNCHANGED listFiles
    /\ UNCHANGED <<engineVars, decoderVars, stopVars, cacheVars>>

\* ======================================================== CnameProcessor
\* ---- messages, commands (src/processor.go:10-15, cnameprocessor.go:168-188)
DnsTapCommand == "DnsTapCommand"
UpdateListsCommand == "UpdateListsCommand"
ZoneAdd == "ZoneAdd"
ZoneRemove == "ZoneRemove"

\* A Message as the engine reads it: whether dnsMessage is set, its Question
\* names and its Answer records.
Message(dns, question, answer) ==
    [dns |-> dns, question |-> question, answer |-> answer]
CNAME(name, target) == [rrtype |-> "CNAME", name |-> name, target |-> target]
A(name) == [rrtype |-> "A", name |-> name, target |-> ""]

\* Command{command, message, blockedDomains}; id is its place in the order
\* of enqueues (history only).
Command(command, message, domains, id) ==
    [command |-> command, message |-> message, blockedDomains |-> domains,
     id |-> id]

UnboundCommandMessage(cmd, domain) == [cmd |-> cmd, domain |-> domain]

\* ---- the inputs of the engine
na == "a.io."
nb == "b.io."
nc == "c.io."

EngineRecords ==
    { Message(FALSE, <<>>, <<>>),
      Message(TRUE, <<na>>, <<>>),
      Message(TRUE, <<na>>, <<A(na)>>),
      Message(TRUE, <<na>>, <<CNAME(na, nb), CNAME(nb, nc), A(nc)>>),
      Message(TRUE, <<na>>, <<CNAME(nb, nc), CNAME(na, nb)>>),
      Message(TRUE, <<nb>>, <<CNAME(nb, nc), A(nc)>>),
      Message(TRUE, <<nb>>, <<CNAME(nb, na)>>),
      Message(TRUE, <<na>>, <<CNAME(na, nb), CNAME(nb, na)>>),
      Message(TRUE, <<na>>, <<CNAME(na, nb), CNAME(na, nc)>>),
      Message(TRUE, <<nb>>, <<CNAME(nb, nb)>>),
      Message(TRUE, <<>>, <<A(na)>>) }

\* The records of the concurrent specification.
TrafficRecords ==
    { Message(TRUE, <<na>>, <<A(na)>>),
      Message(TRUE, <<na>>, <<CNAME(na, nb), CNAME(nb, nc), A(nc)>>),
      Message(TRUE, <<nb>>, <<CNAME(nb, nc), A(nc)>>) }

Files(blocked, white, black) ==
    [blocked |-> blocked, white |-> white, black |-> black]
OkFile(stems) == File("ok", [i \in 1..Len(stems) |-> Line(FALSE, stems[i], FALSE)])

EngineFiles ==
    { Files(OkFile(<<"c.io">>), OkFile(<<>>), OkFile(<<>>)),
      Files(OkFile(<<>>), OkFile(<<>>), OkFile(<<>>)),
      Files(OkFile(<<"c.io">>), OkFile(<<>>), OkFile(<<"b.io">>)),
      Files(OkFile(<<"c.io">>), OkFile(<<"c.io">>), OkFile(<<"b.io">>)),
      Files(File("missing", <<>>), OkFile(<<>>), OkFile(<<"b.io">>)),
      Files(OkFile(<<"c.io">>), File("readerr", <<>>), OkFile(<<>>)) }

\* The list files the handlers of the concurrent specification find.
ReloadFiles ==
    { Files(OkFile(<<"c.io">>), OkFile(<<>>), OkFile(<<>>)),
      Files(OkFile(<<>>), OkFile(<<>>), OkFile(<<>>)),
      Files(File("missing", <<>>), OkFile(<<>>), OkFile(<<"b.io">>)) }

Handlers == {"h1", "h2"}
Methods == {"POST", "GET"}

\* ---- history
Enqueued(command, req, domains) ==
    [command |-> command, req |-> req, domains |-> domains]
NoCommand ==
    [id |-> 0, command |-> None, message |-> Nil, newDomains |-> {},
     domains0 |-> {}, cnames0 |-> EmptyMap, emitted0 |-> 0, applied0 |-> 0,
     base0 |-> {}, fresh0 |-> {}, again |-> FALSE]
HistInit(domains) ==
    [initial |-> domains, \* the set the engine was constructed with
     enq |-> <<>>,        \* the commands in the order they were enqueued
     deq |-> <<>>,        \* the ids in the order they were dispatched
     applied |-> 0,       \* reloads whose set has been installed
     base |-> domains,    \* the set built last and installed
     emitted |-> <<>>,    \* the unbound commands in the order they were sent
     cur |-> NoCommand,   \* the command being processed, or the last one
     fresh |-> {},        \* names blocked by the walk since the last install
     hits |-> {},         \* messages whose walk hit since the last install
     reads |-> <<>>,      \* the getBlockedDomains calls of the handlers
     delivered |-> 0,     \* messages received from proc.messages
     requests |-> 0,      \* update requests served
     inflight |-> {}]     \* the requests running when Shutdown was called

\* ---- construction (NewCnameProcessor, cnameprocessor.go:215-233): a load
\* error is fatal, so the engine starts with a set that was built.
LoopIdle == [pc |-> "recv", qname |-> "", cnames |-> EmptyMap, check |-> "",
             newDomains |-> {}, todo |-> {}]
HandlerIdle == [pc |-> "idle", req |-> 0, result |-> {}, resp |-> 0]

NewCnameProcessor(files) ==
    /\ runMsg = Nil
    /\ blockedCnames = EmptyMap
    /\ blockedDomains =
          getBlockedDomains(files.blocked, files.white, files.black).domains
    /\ unboundChan = <<>>
    /\ httpMutex = 0
    /\ handler = [h \in Handlers |-> HandlerIdle]
    /\ loop = LoopIdle

EngineInit ==
    \E files \in ReloadFiles :
        /\ ~getBlockedDomains(files.blocked, files.white, files.black).err
        /\ NewCnameProcessor(files)
        /\ commands = <<>>
        /\ hist = HistInit(blockedDomains)

\* The engine with commands already queued and the loop not yet started:
\* every sequence of at most MaxQueued commands over the records and the
\* sets the list files can give.
LoopSets ==
    {getBlockedDomains(f.blocked, f.white, f.black).domains :
        f \in {g \in EngineFiles :
                  ~getBlockedDomains(g.blocked, g.white, g.black).err}}
LoopInputs ==
    {[command |-> DnsTapCommand, message |-> m, blockedDomains |-> {}] :
        m \in EngineRecords}
    \cup {[command |-> UpdateListsCommand, message |-> Nil,
           blockedDomains |-> d] : d \in LoopSets}

LoopInit ==
    \E files \in EngineFiles, queued \in SeqsUpTo(LoopInputs, MaxQueued) :
        /\ ~getBlockedDomains(files.blocked, files.white, files.black).err
        /\ NewCnameProcessor(files)
        /\ commands = [i \in 1..Len(queued) |->
              Command(queued[i].command, queued[i].message,
                      queued[i].blockedDomains, i)]
        /\ hist = [HistInit(blockedDomains) EXCEPT !.enq =
              [i \in 1..Len(queued) |->
                  Enqueued(queued[i].command, 0, queued[i].blockedDomains)]]

\* ---- the traffic path
\* Run: for message := range proc.messages (cnameprocessor.go:265); the
\* message is what the decoder sent on the engine's channel.
RunRecv(message) ==
    /\ runMsg = Nil
    /\ hist.delivered < MaxRecords
    /\ runMsg' = message
    /\ hist' = [hist EXCEPT !.delivered = @ + 1]
    /\ UNCHANGED <<commands, blockedCnames, blockedDomains, unboundChan,
                   httpMutex, handler, loop>>
    /\ UNCHANGED <<listVars, cacheVars, decoderVars, stopVars>>

\* processMessage: proc.commands <- &Command{DnsTapCommand, message, nil}.
processMessage ==
    /\ runMsg # Nil
    /\ CanSend(commands, BufferSize)
    /\ commands' = Send(commands, Command(DnsTapCommand, runMsg, {},
                                          Len(hist.enq) + 1))
    /\ runMsg' = Nil
    /\ hist' = [hist EXCEPT !.enq = Append(@, Enqueued(DnsTapCommand, 0, {}))]
    /\ UNCHANGED <<blockedCnames, blockedDomains, unboundChan,
                   httpMutex, handler, loop>>
    /\ UNCHANGED <<listVars, cacheVars, decoderVars, stopVars>>

\* ---- the reload trigger (updateHandler, cnameprocessor.go:296-316)
\* proc.httpMutex.Lock() returns once no other call holds the mutex.
MutexAlwaysFree(mutex) == TRUE
MutexFree(mutex) == mutex = 0

AnyLoadFails(files) ==
    \E f \in {files.blocked, files.white, files.black} : loadRpzFile(f).err

\* A request arrives: anything but POST is answered 405 at once.
updateHandler(h, method) ==
    /\ handler[h].pc = "idle"
    /\ hist.requests < MaxReloads
    /\ hist' = [hist EXCEPT !.requests = @ + 1]
    /\ handler' = [handler EXCEPT ![h] =
          IF method = "POST"
          THEN [pc |-> "lock", req |-> hist.requests + 1, result |-> {},
                resp |-> 0]
          ELSE [pc |-> "idle", req |-> hist.requests + 1, result |-> {},
                resp |-> 405]]
    /\ UNCHANGED <<runMsg, commands, blockedCnames, blockedDomains,
                   unboundChan, httpMutex, loop>>
    /\ UNCHANGED <<listVars, cacheVars, decoderVars, stopVars>>

HandlerLock(h) ==
    /\ handler[h].pc = "lock"
    /\ MutexFree(httpMutex)
    /\ httpMutex' = handler[h].req
    /\ handler' = [handler EXCEPT ![h].pc = "load"]
    /\ UNCHANGED <<runMsg, commands, blockedCnames, blockedDomains,
                   unboundChan, loop, hist>>
    /\ UNCHANGED <<listVars, cacheVars, decoderVars, stopVars>>

\* getBlockedDomains on the files as they are now; an error is answered 500
\* and the call returns, which unlocks the mutex.
HandlerLoad(h, files) ==
    /\ handler[h].pc = "load"
    /\ LET r == getBlockedDomains(files.blocked, files.white, files.black)
       IN  /\ handler' = [handler EXCEPT ![h] =
                 IF r.err
                 THEN [@ EXCEPT !.pc = "idle", !.resp = 500]
                 ELSE [@ EXCEPT !.pc = "send", !.result = r.domains]]
           /\ httpMutex' = IF r.err THEN 0 ELSE httpMutex
           /\ hist' = [hist EXCEPT !.reads =
                 Append(@, [req |-> handler[h].req,
                            failed |-> AnyLoadFails(files)])]
    /\ UNCHANGED <<runMsg, commands, blockedCnames, blockedDomains,
                   unboundChan, loop>>
    /\ UNCHANGED <<listVars, cacheVars, decoderVars, stopVars>>

\* A handler that installs the set it built itself instead of leaving that
\* to the command loop.
HandlerSendInstall(h) ==
    /\ handler[h].pc = "send"
    /\ blockedDomains' = handler[h].result
    /\ handler' = [handler EXCEPT ![h] =
          [@ EXCEPT !.pc = "idle", !.resp = 200, !.result = {}]]
    /\ httpMutex' = 0
    /\ hist' = [hist EXCEPT !.enq =
          Append(@, Enqueued(UpdateListsCommand, handler[h].req,
                             handler[h].result))]
    /\ UNCHANGED <<runMsg, commands, blockedCnames, unboundChan, loop>>
    /\ UNCHANGED <<listVars, cacheVars, decoderVars, stopVars>>
\* proc.commands <- &Command{UpdateListsCommand, nil, blockedDomains}, then
\* 200 and the return, which unlocks the mutex and ends the life of the
\* local that pointed at the set.
HandlerSend(h) ==
    /\ handler[h].pc = "send"
    /\ CanSend(commands, BufferSize)
    /\ commands' = Send(commands, Command(UpdateListsCommand, Nil,
                                          handler[h].result,
                                          Len(hist.enq) + 1))
    /\ handler' = [handler EXCEPT ![h] =
          [@ EXCEPT !.pc = "idle", !.resp = 200, !.result = {}]]
    /\ httpMutex' = 0
    /\ hist' = [hist EXCEPT !.enq =
          Append(@, Enqueued(UpdateListsCommand, handler[h].req,
                             handler[h].result))]
    /\ UNCHANGED <<runMsg, blockedCnames, blockedDomains, unboundChan, loop>>
    /\ UNCHANGED <<listVars, cacheVars, decoderVars, stopVars>>

\* ---- the command loop (processCommands, cnameprocessor.go:363-375)
\* The chain built from the Answer section (400-410): nil when it holds no
\* CNAME, else a map in which a later record of a name replaces an earlier.
NilChain == [nil |-> TRUE, map |-> EmptyMap]
RECURSIVE BuildChain(_, _)
BuildChain(answer, cnames) ==
    IF answer = <<>> THEN cnames
    ELSE LET rr == Head(answer)
         IN  BuildChain(Tail(answer),
                IF rr.rrtype = "CNAME"
                THEN [nil |-> FALSE,
                      map |-> MapPut(cnames.map, rr.name, rr.target)]
                ELSE cnames)

\* A lookup that finds no entry for any name.
ChainLookupNone(cnames, check) == ""
\* cname := (*cnames)[check]: the empty string for a name that has no entry.
ChainLookup(cnames, check) ==
    IF check \in DOMAIN cnames THEN cnames[check] ELSE ""

\* if (*proc.blockedDomains)[qname] { return } (396)
NeverBlocked(domains, qname) == FALSE
AlreadyBlocked(domains, qname) == qname \in domains

\* (*proc.blockedDomains)[qname] = true (427)
WalkHitKeepsDomains(domains, qname) == domains
WalkHitDomains(domains, qname) == domains \cup {qname}

\* if !(*blockedDomains)[cname] (380): the entry qname -> cname is dropped
\* when its target is not in the new set.
NoLongerBlockedByKey(newDomains, qname, cname) == qname \notin newDomains
NoLongerBlocked(newDomains, qname, cname) == cname \notin newDomains

\* proc.blockedDomains = blockedDomains (390)
MergeDomains(oldDomains, newDomains) == oldDomains \cup newDomains
InstallDomains(oldDomains, newDomains) == newDomains

Snapshot(c) ==
    [id |-> c.id, command |-> c.command, message |-> c.message,
     newDomains |-> c.blockedDomains,
     domains0 |-> blockedDomains, cnames0 |-> blockedCnames,
     emitted0 |-> Len(hist.emitted), applied0 |-> hist.applied,
     base0 |-> hist.base, fresh0 |-> hist.fresh,
     again |-> c.message \in hist.hits]

\* One command is received and dispatched.  A DnsTapCommand runs
\* processDnstapMessage up to its chain walk (393-417); an
\* UpdateListsCommand enters the loop of processUpdateLists (379).
CmdRecv ==
    /\ loop.pc = "recv"
    /\ commands # <<>>
    /\ LET c == Receive(commands).value
           m == c.message
           qname == m.question[1]
           cnames == BuildChain(m.answer, NilChain)
       IN  /\ commands' = Receive(commands).rest
           /\ hist' = [hist EXCEPT !.deq = Append(@, c.id),
                                   !.cur = Snapshot(c)]
           /\ loop' =
                IF c.command = UpdateListsCommand
                THEN [LoopIdle EXCEPT !.pc = "update",
                                      !.newDomains = c.blockedDomains,
                                      !.todo = DOMAIN blockedCnames]
                ELSE IF ~(m.dns /\ Len(m.answer) > 0) THEN LoopIdle
                ELSE IF m.question = <<>>
                     THEN [LoopIdle EXCEPT !.pc = "panic"]
                ELSE IF AlreadyBlocked(blockedDomains, qname) THEN LoopIdle
                ELSE IF cnames.nil THEN LoopIdle
                ELSE [LoopIdle EXCEPT !.pc = "walk", !.qname = qname,
                                      !.cnames = cnames.map, !.check = qname]
    /\ UNCHANGED <<runMsg, blockedCnames, blockedDomains,
                   unboundChan, httpMutex, handler>>
    /\ UNCHANGED <<listVars, cacheVars, decoderVars, stopVars>>

\* One turn of the walk (418-438).
WalkStep ==
    /\ loop.pc = "walk"
    /\ LET cname == ChainLookup(loop.cnames, loop.check)
       IN  IF cname = ""
           THEN /\ loop' = LoopIdle
                /\ UNCHANGED <<blockedCnames, blockedDomains, hist>>
           ELSE IF cname \in blockedDomains
           THEN /\ blockedCnames' = MapPut(blockedCnames, loop.qname, cname)
                /\ blockedDomains' = WalkHitDomains(blockedDomains, loop.qname)
                /\ loop' = [loop EXCEPT !.pc = "sendAdd"]
                /\ hist' = [hist EXCEPT !.fresh = @ \cup {loop.qname},
                                        !.hits = @ \cup {hist.cur.message}]
           ELSE /\ loop' = [loop EXCEPT !.check = cname]
                /\ UNCHANGED <<blockedCnames, blockedDomains, hist>>
    /\ UNCHANGED <<runMsg, commands, unboundChan, httpMutex,
                   handler>>
    /\ UNCHANGED <<listVars, cacheVars, decoderVars, stopVars>>

\* proc.unbound.GetChannel() <- ZoneAdd qname (429-432), then break.
WalkSend ==
    /\ loop.pc = "sendAdd"
    /\ CanSend(unboundChan, UnboundCap)
    /\ unboundChan' = Send(unboundChan,
                           UnboundCommandMessage(ZoneAdd, loop.qname))
    /\ hist' = [hist EXCEPT !.emitted =
          Append(@, UnboundCommandMessage(ZoneAdd, loop.qname))]
    /\ loop' = LoopIdle
    /\ UNCHANGED <<runMsg, commands, blockedCnames, blockedDomains,
                   httpMutex, handler>>
    /\ UNCHANGED <<listVars, cacheVars, decoderVars, stopVars>>

\* One turn of the range over blockedCnames (379-388); Go visits the
\* entries in any order.
UpdateStep ==
    /\ loop.pc = "update"
    /\ \E qname \in loop.todo :
         LET cname == blockedCnames[qname]
         IN  /\ IF NoLongerBlocked(loop.newDomains, qname, cname)
                THEN /\ CanSend(unboundChan, UnboundCap)
                     /\ unboundChan' = Send(unboundChan,
                           UnboundCommandMessage(ZoneRemove, qname))
                     /\ hist' = [hist EXCEPT !.emitted =
                           Append(@, UnboundCommandMessage(ZoneRemove, qname))]
                     /\ blockedCnames' = MapDelete(blockedCnames, qname)
                ELSE UNCHANGED <<unboundChan, hist, blockedCnames>>
             /\ loop' = [loop EXCEPT !.todo = @ \ {qname}]
    /\ UNCHANGED <<runMsg, commands, blockedDomains, httpMutex,
                   handler>>
    /\ UNCHANGED <<listVars, cacheVars, decoderVars, stopVars>>

\* The range is over: the new set is installed (390).
UpdateInstall ==
    /\ loop.pc = "update"
    /\ loop.todo = {}
    /\ blockedDomains' = InstallDomains(blockedDomains, loop.newDomains)
    /\ loop' = LoopIdle
    /\ hist' = [hist EXCEPT !.applied = @ + 1, !.base = loop.newDomains,
                            !.fresh = {}, !.hits = {}]
    /\ UNCHANGED <<runMsg, commands, blockedCnames, unboundChan,
                   httpMutex, handler>>
    /\ UNCHANGED <<listVars, cacheVars, decoderVars, stopVars>>

\* ---- the worker of the unbound queue takes one command at a time
UnboundRun ==
    /\ unboundChan # <<>>
    /\ unboundChan' = Receive(unboundChan).rest
    /\ UNCHANGED <<runMsg, commands, blockedCnames, blockedDomains,
                   httpMutex, handler, loop, hist>>
    /\ UNCHANGED <<listVars, cacheVars, decoderVars, stopVars>>

\* ---- the specification of the engine
DecoderIdle ==
    /\ channel = <<>>
    /\ channelClosed = FALSE
    /\ procChans = <<>>
    /\ procClosed = <<>>
    /\ dec = Nil
    /\ dhist = Nil

\* Nothing of the shutdown has begun.
StopIdle ==
    /\ run = "range"
    /\ serverClosed = FALSE
    /\ commandsClosed = FALSE
    /\ unboundClosed = FALSE
    /\ done = {}
    /\ main = "wait"

\* getHost is not called.
NoLookups ==
    /\ ipToHost = EmptyMap
    /\ now = 0
    /\ chist = Nil

Init == EngineInit /\ ListsIdle /\ DecoderIdle /\ StopIdle /\ NoLookups

Next ==
    \/ \E message \in TrafficRecords : RunRecv(message)
    \/ processMessage
    \/ \E h \in Handlers, method \in Methods : updateHandler(h, method)
    \/ \E h \in Handlers : HandlerLock(h)
    \/ \E h \in Handlers, files \in ReloadFiles : HandlerLoad(h, files)
    \/ \E h \in Handlers : HandlerSend(h)
    \/ CmdRecv
    \/ WalkStep
    \/ WalkSend
    \/ UpdateStep
    \/ UpdateInstall
    \/ UnboundRun

Spec == Init /\ [][Next]_vars

\* ---- the command loop on its own, over every queue of commands
InitLoop == LoopInit /\ ListsIdle /\ DecoderIdle /\ StopIdle /\ NoLookups

NextLoop ==
    \/ CmdRecv
    \/ WalkStep
    \/ WalkSend
    \/ UpdateStep
    \/ UpdateInstall
    \/ UnboundRun

SpecLoop == InitLoop /\ [][NextLoop]_vars

\* ---- getBlockedDomains on its own, over every list file
EngineIdle ==
    /\ NewCnameProcessor(Files(OkFile(<<>>), OkFile(<<>>), OkFile(<<>>)))
    /\ commands = <<>>
    /\ hist = HistInit(blockedDomains)

InitLists == ListsInit /\ DecoderIdle /\ EngineIdle /\ StopIdle /\ NoLookups

NextLists == BuildLists

SpecLists == InitLists /\ [][NextLists]_vars

\* ========================================================= DnsTapDecoder
\* main registers the influx processor, then the cname processor
\* (main.go:82-83).
NumProcessors == 2
Processors == 1..NumProcessors

\* A frame as Run reads it: whether proto.Unmarshal accepts it, its type,
\* the type of its message, and for the query and the response side whether
\* the time fields are set and what the message bytes unpack to.
Frame(type, sub, qtime, qmsg, rtime, rmsg) ==
    [type |-> type, sub |-> sub, qtime |-> qtime, qmsg |-> qmsg,
     rtime |-> rtime, rmsg |-> rmsg]
FrameKinds ==
    { Frame("MALFORMED", "NONE", FALSE, "absent", FALSE, "absent"),
      Frame("OTHER", "NONE", FALSE, "absent", FALSE, "absent"),
      Frame("MESSAGE", "QUERY", TRUE, "ok", FALSE, "absent"),
      Frame("MESSAGE", "RESPONSE", TRUE, "ok", TRUE, "ok"),
      Frame("MESSAGE", "RESPONSE", FALSE, "absent", TRUE, "bad"),
      Frame("MESSAGE", "UNKNOWN", TRUE, "ok", TRUE, "ok") }

\* The frame source gives any frame first and then frames of these kinds.
FollowingFrames ==
    { Frame("MALFORMED", "NONE", FALSE, "absent", FALSE, "absent"),
      Frame("OTHER", "NONE", FALSE, "absent", FALSE, "absent"),
      Frame("MESSAGE", "QUERY", TRUE, "ok", FALSE, "absent"),
      Frame("MESSAGE", "UNKNOWN", TRUE, "ok", TRUE, "ok") }
FramesAt(i) == IF i = 1 THEN FrameKinds ELSE FollowingFrames

\* getTime (part_000:59-65): the frame's time when both fields are set.
getTime(set) == IF set THEN "frame" ELSE "now"
\* getDnsMsg (part_000:67-76): the message when the bytes are there and unpack.
getDnsMsg(bytes) == bytes = "ok"

\* if *dt.Type == dnstap.Dnstap_MESSAGE (part_000:106)
AnyType(frame) == frame.type # "MALFORMED"
IsMessage(frame) == frame.type = "MESSAGE"

\* The Message built from a frame (part_000:107-139); id is the frame's place
\* in the order of arrival (history only).
DecodedMessage(frame, id) ==
    LET timestamp == CASE frame.sub = "QUERY" -> getTime(frame.qtime)
                       [] frame.sub = "RESPONSE" -> getTime(frame.rtime)
                       [] OTHER -> getTime(FALSE)
        dnsMsg == CASE frame.sub = "QUERY" -> getDnsMsg(frame.qmsg)
                    [] frame.sub = "RESPONSE" -> getDnsMsg(frame.rmsg)
                    [] OTHER -> getDnsMsg("absent")
    IN  [id |-> id, sub |-> frame.sub, timestamp |-> timestamp,
         dns |-> dnsMsg]

DecIdle == [pc |-> "recv", message |-> Nil, idx |-> 1]

DecoderInit ==
    /\ channel = <<>>
    /\ channelClosed = FALSE
    /\ procChans = [p \in Processors |-> <<>>]
    /\ procClosed = [p \in Processors |-> FALSE]
    /\ dec = DecIdle
    /\ dhist = [arrived |-> <<>>,     \* the frames read into dec.channel
                taken |-> 0,          \* the frames Run has received
                pending |-> 0,        \* the frames buffered at the close
                delivered |-> [p \in Processors |-> <<>>],
                received |-> [p \in Processors |-> <<>>]]

\* input.ReadInto(decoder.GetChannel()) (main.go:97, 105): the frame source
\* sends a frame.
SourceRead(frame) ==
    /\ ~channelClosed
    /\ Len(dhist.arrived) < MaxFrames
    /\ frame \in FramesAt(Len(dhist.arrived) + 1)
    /\ CanSend(channel, BufferSize)
    /\ channel' = Send(channel, [frame |-> frame, id |-> Len(dhist.arrived) + 1])
    /\ dhist' = [dhist EXCEPT !.arrived = Append(@, frame)]
    /\ UNCHANGED <<channelClosed, procChans, procClosed, dec>>
    /\ UNCHANGED <<engineVars, listVars, cacheVars, stopVars>>

\* close(decoder.GetChannel()) once the input is over (main.go:109-111).
SourceClose ==
    /\ ~channelClosed
    /\ channelClosed' = TRUE
    /\ dhist' = [dhist EXCEPT !.pending = Len(channel)]
    /\ UNCHANGED <<channel, procChans, procClosed, dec>>
    /\ UNCHANGED <<engineVars, listVars, cacheVars, stopVars>>

\* Run receives a frame (part_000:98-139): an undecodable one is fatal, one
\* that is no MESSAGE is passed over, else the message is built.
DecRecv ==
    /\ dec.pc = "recv"
    /\ channel # <<>>
    /\ LET item == Receive(channel).value
       IN  /\ channel' = Receive(channel).rest
           /\ dhist' = [dhist EXCEPT !.taken = @ + 1]
           /\ dec' = IF item.frame.type = "MALFORMED"
                     THEN [DecIdle EXCEPT !.pc = "fatal"]
                     ELSE IF IsMessage(item.frame)
                     THEN [pc |-> "send",
                           message |-> DecodedMessage(item.frame, item.id),
                           idx |-> 1]
                     ELSE DecIdle
    /\ UNCHANGED <<channelClosed, procChans, procClosed>>
    /\ UNCHANGED <<engineVars, listVars, cacheVars, stopVars>>

\* proc.GetChannel() <- message, for the processors in turn (142-144).
DecSend ==
    /\ dec.pc = "send"
    /\ CanSend(procChans[dec.idx], BufferSize)
    /\ procChans' = [procChans EXCEPT ![dec.idx] = Send(@, dec.message)]
    /\ dhist' = [dhist EXCEPT !.delivered[dec.idx] = Append(@, dec.message)]
    /\ dec' = IF dec.idx = NumProcessors THEN DecIdle
              ELSE [dec EXCEPT !.idx = @ + 1]
    /\ UNCHANGED <<channel, channelClosed, procClosed>>
    /\ UNCHANGED <<engineVars, listVars, cacheVars, stopVars>>

\* The range over dec.channel ends when it is closed and empty; Run then
\* closes the channel of each processor in turn (148-150) ...
DecClose ==
    /\ \/ dec.pc = "recv" /\ RangeDone(channel, channelClosed)
       \/ dec.pc = "close"
    /\ procClosed' = [procClosed EXCEPT ![dec.idx] = TRUE]
    /\ dec' = IF dec.idx = NumProcessors THEN [DecIdle EXCEPT !.pc = "closed"]
              ELSE [pc |-> "close", message |-> Nil, idx |-> dec.idx + 1]
    /\ UNCHANGED <<channel, channelClosed, procChans, dhist>>
    /\ UNCHANGED <<engineVars, listVars, cacheVars, stopVars>>

\* ... and reports completion: wg.Done() (151).
DecDone ==
    /\ dec.pc = "closed"
    /\ dec' = [dec EXCEPT !.pc = "done"]
    /\ UNCHANGED <<channel, channelClosed, procChans, procClosed, dhist>>
    /\ UNCHANGED <<engineVars, listVars, cacheVars, stopVars>>

\* A processor receives from its channel: for message := range ...
\* (part_002:44, cnameprocessor.go:265).
ProcRecv(p) ==
    /\ procChans[p] # <<>>
    /\ procChans' = [procChans EXCEPT ![p] = Receive(@).rest]
    /\ dhist' = [dhist EXCEPT !.received[p] = Append(@, Receive(procChans[p]).value)]
    /\ UNCHANGED <<channel, channelClosed, procClosed, dec>>
    /\ UNCHANGED <<engineVars, listVars, cacheVars, stopVars>>

\* ---- the decoder with its frame source and its processors
InitDecoder == DecoderInit /\ ListsIdle /\ EngineIdle /\ StopIdle /\ NoLookups

NextDecoder ==
    \/ \E frame \in FrameKinds : SourceRead(frame)
    \/ SourceClose
    \/ DecRecv
    \/ DecSend
    \/ DecClose
    \/ DecDone
    \/ \E p \in Processors : ProcRecv(p)

SpecDecoder == InitDecoder /\ [][NextDecoder]_vars

\* ============================================================== shutdown
\* The whole pipeline from the frame source to main's wg.Wait(): the decoder
\* and its two processors (influx first, the CnameProcessor second), the
\* CnameProcessor with the three goroutines Run starts (261-263), and the
\* teardown of Run (269-273).
Influx == 1
Cnames == 2

\* A panic or log.Fatalf ends the process: no goroutine takes another step.
Alive == loop.pc # "panic" /\ dec.pc # "fatal"

\* The frames and the DNS messages of the shutdown pipeline: frames that
\* decode, and records whose chains have no cycle.
StopFrameKinds ==
    { Frame("OTHER", "NONE", FALSE, "absent", FALSE, "absent"),
      Frame("MESSAGE", "RESPONSE", TRUE, "ok", TRUE, "ok") }
StopRecords ==
    { Message(TRUE, <<na>>, <<A(na)>>),
      Message(TRUE, <<na>>, <<CNAME(na, nb), CNAME(nb, nc), A(nc)>>) }

StopSourceRead(frame) ==
    /\ Alive
    /\ Len(dhist.arrived) < StopFrames
    /\ SourceRead(frame)
StopSourceClose == Alive /\ SourceClose
StopDecRecv == Alive /\ DecRecv
StopDecSend == Alive /\ DecSend
StopDecClose == Alive /\ DecClose
StopDecDone == Alive /\ DecDone

\* InfluxProcessor.Run (part_002:43-50): the range over influx.messages ...
InfluxRecv ==
    /\ Alive
    /\ "influx" \notin done
    /\ ProcRecv(Influx)
\* ... and after it Flush, Close and wg.Done().
InfluxDone ==
    /\ Alive
    /\ "influx" \notin done
    /\ RangeDone(procChans[Influx], procClosed[Influx])
    /\ done' = done \cup {"influx"}
    /\ UNCHANGED <<run, serverClosed, commandsClosed, unboundClosed, main>>
    /\ UNCHANGED <<engineVars, listVars, cacheVars, decoderVars>>

\* CnameProcessor.Run: for message := range proc.messages (265).  The frame
\* unpacked to some DNS message.
StopRunRecv(message) ==
    /\ Alive
    /\ run = "range"
    /\ runMsg = Nil
    /\ procChans[Cnames] # <<>>
    /\ message.dns = Receive(procChans[Cnames]).value.dns
    /\ runMsg' = message
    /\ procChans' = [procChans EXCEPT ![Cnames] = Receive(@).rest]
    /\ dhist' = [dhist EXCEPT !.received[Cnames] =
                    Append(@, Receive(procChans[Cnames]).value)]
    /\ hist' = [hist EXCEPT !.delivered = @ + 1]
    /\ UNCHANGED <<commands, blockedCnames, blockedDomains, unboundChan,
                   httpMutex, handler, loop>>
    /\ UNCHANGED <<channel, channelClosed, procClosed, dec>>
    /\ UNCHANGED <<listVars, cacheVars, stopVars>>
StopProcessMessage == Alive /\ processMessage

\* The range over proc.messages is over (265-267).
RunRangeDone ==
    /\ Alive
    /\ run = "range"
    /\ runMsg = Nil
    /\ RangeDone(procChans[Cnames], procClosed[Cnames])
    /\ run' = "shutdown"
    /\ UNCHANGED <<serverClosed, commandsClosed, unboundClosed, done, main>>
    /\ UNCHANGED <<engineVars, listVars, cacheVars, decoderVars>>
\* proc.httpServer.Shutdown(context.TODO()) (269): the listener is closed at
\* once, and the call returns when no handler is running any more.
RunShutdown ==
    /\ Alive
    /\ run = "shutdown"
    /\ serverClosed' = TRUE
    /\ run' = "shutdownWait"
    /\ hist' = [hist EXCEPT !.inflight =
          {handler[h].req : h \in {g \in Handlers : handler[g].pc # "idle"}}]
    /\ UNCHANGED <<commandsClosed, unboundClosed, done, main>>
    /\ UNCHANGED <<runMsg, commands, blockedCnames, blockedDomains,
                   unboundChan, httpMutex, handler, loop>>
    /\ UNCHANGED <<listVars, cacheVars, decoderVars>>
\* A Shutdown that returns with handlers still running.
ShutdownReturnsAtOnce(calls) == TRUE
ShutdownReturns(calls) == \A h \in Handlers : calls[h].pc = "idle"
RunShutdownReturn ==
    /\ Alive
    /\ run = "shutdownWait"
    /\ ShutdownReturns(handler)
    /\ run' = "closeCommands"
    /\ UNCHANGED <<serverClosed, commandsClosed, unboundClosed, done, main>>
    /\ UNCHANGED <<engineVars, listVars, cacheVars, decoderVars>>
\* close(proc.commands) (270)
RunCloseCommands ==
    /\ Alive
    /\ run = "closeCommands"
    /\ commandsClosed' = TRUE
    /\ run' = "closeUnbound"
    /\ UNCHANGED <<serverClosed, unboundClosed, done, main>>
    /\ UNCHANGED <<engineVars, listVars, cacheVars, decoderVars>>
\* close(proc.unbound.GetChannel()) (271)
RunCloseUnbound ==
    /\ Alive
    /\ run = "closeUnbound"
    /\ unboundClosed' = TRUE
    /\ run' = "wait"
    /\ UNCHANGED <<serverClosed, commandsClosed, done, main>>
    /\ UNCHANGED <<engineVars, listVars, cacheVars, decoderVars>>
\* childrenWg.Wait(); wg.Done() (272-273)
Children == {"processCommands", "runUpdateListener", "unbound"}
RunWait ==
    /\ Alive
    /\ run = "wait"
    /\ Children \subseteq done
    /\ run' = "done"
    /\ done' = done \cup {"cnames"}
    /\ UNCHANGED <<serverClosed, commandsClosed, unboundClosed, main>>
    /\ UNCHANGED <<engineVars, listVars, cacheVars, decoderVars>>

\* runUpdateListener (276-293): requests are served until Shutdown closes
\* the listener; ListenAndServe then returns and wg.Done() is called.
StopUpdateHandler(h, method) ==
    /\ Alive
    /\ ~serverClosed
    /\ hist.requests < StopReloads
    /\ h = "h2" => handler["h1"].pc # "idle" \* calls are interchangeable
    /\ updateHandler(h, method)
StopHandlerLock(h) == Alive /\ HandlerLock(h)
StopHandlerLoad(h, files) == Alive /\ HandlerLoad(h, files)
\* The send of the handler (308).  On a closed channel it panics; net/http
\* recovers the panic of a handler and drops the connection, and the deferred
\* Unlock (299) runs: the call ends with no response.
Aborted == 0 - 1
StopHandlerSend(h) ==
    /\ Alive
    /\ IF commandsClosed
       THEN /\ handler[h].pc = "send"
            /\ handler' = [handler EXCEPT ![h] =
                  [@ EXCEPT !.pc = "idle", !.resp = Aborted, !.result = {}]]
            /\ httpMutex' = 0
            /\ UNCHANGED <<runMsg, commands, blockedCnames, blockedDomains,
                           unboundChan, loop, hist>>
            /\ UNCHANGED <<listVars, cacheVars, decoderVars, stopVars>>
       ELSE HandlerSend(h)
ListenerDone ==
    /\ Alive
    /\ serverClosed
    /\ "runUpdateListener" \notin done
    /\ done' = done \cup {"runUpdateListener"}
    /\ UNCHANGED <<run, serverClosed, commandsClosed, unboundClosed, main>>
    /\ UNCHANGED <<engineVars, listVars, cacheVars, decoderVars>>

\* processCommands (363-375): the loop, and wg.Done() after the range over
\* proc.commands.
StopCmdRecv == Alive /\ CmdRecv
StopWalkStep == Alive /\ WalkStep
StopWalkSend == Alive /\ ~unboundClosed /\ WalkSend
StopUpdateStep ==
    /\ Alive
    /\ UpdateStep
    /\ unboundClosed => unboundChan' = unboundChan
StopUpdateInstall == Alive /\ UpdateInstall
\* A send on a closed channel panics (429-432, 382-385).
WalkSendClosed ==
    /\ Alive
    /\ loop.pc = "sendAdd"
    /\ unboundClosed
    /\ loop' = [loop EXCEPT !.pc = "panic"]
    /\ UNCHANGED <<runMsg, commands, blockedCnames, blockedDomains,
                   unboundChan, httpMutex, handler, hist>>
    /\ UNCHANGED <<listVars, cacheVars, decoderVars, stopVars>>
UpdateSendClosed ==
    /\ Alive
    /\ loop.pc = "update"
    /\ unboundClosed
    /\ \E qname \in loop.todo :
          NoLongerBlocked(loop.newDomains, qname, blockedCnames[qname])
    /\ loop' = [loop EXCEPT !.pc = "panic"]
    /\ UNCHANGED <<runMsg, commands, blockedCnames, blockedDomains,
                   unboundChan, httpMutex, handler, hist>>
    /\ UNCHANGED <<listVars, cacheVars, decoderVars, stopVars>>
CmdDone ==
    /\ Alive
    /\ loop.pc = "recv"
    /\ RangeDone(commands, commandsClosed)
    /\ loop' = [loop EXCEPT !.pc = "done"]
    /\ done' = done \cup {"processCommands"}
    /\ UNCHANGED <<runMsg, commands, blockedCnames, blockedDomains,
                   unboundChan, httpMutex, handler, hist>>
    /\ UNCHANGED <<run, serverClosed, commandsClosed, unboundClosed, main>>
    /\ UNCHANGED <<listVars, cacheVars, decoderVars>>

\* proc.unbound.Run (263): the worker takes the queued commands and calls
\* wg.Done() when its channel is closed and empty.
StopUnboundRun == Alive /\ UnboundRun
UnboundDone ==
    /\ Alive
    /\ "unbound" \notin done
    /\ RangeDone(unboundChan, unboundClosed)
    /\ done' = done \cup {"unbound"}
    /\ UNCHANGED <<run, serverClosed, commandsClosed, unboundClosed, main>>
    /\ UNCHANGED <<engineVars, listVars, cacheVars, decoderVars>>

\* main: wg.Wait() returns once influx.Run, cnames.Run and decoder.Run have
\* called wg.Done() (main.go:85-91, 112).
MainWait ==
    /\ Alive
    /\ main = "wait"
    /\ {"influx", "cnames"} \subseteq done
    /\ dec.pc = "done"
    /\ main' = "exit"
    /\ UNCHANGED <<run, serverClosed, commandsClosed, unboundClosed, done>>
    /\ UNCHANGED <<engineVars, listVars, cacheVars, decoderVars>>

InitStop == EngineInit /\ DecoderInit /\ ListsIdle /\ StopIdle /\ NoLookups

NextStop ==
    \/ \E frame \in StopFrameKinds : StopSourceRead(frame)
    \/ StopSourceClose
    \/ StopDecRecv
    \/ StopDecSend
    \/ StopDecClose
    \/ StopDecDone
    \/ InfluxRecv
    \/ InfluxDone
    \/ \E message \in StopRecords : StopRunRecv(message)
    \/ StopProcessMessage
    \/ RunRangeDone
    \/ RunShutdown
    \/ RunShutdownReturn
    \/ RunCloseCommands
    \/ RunCloseUnbound
    \/ RunWait
    \/ \E h \in Handlers, method \in Methods : StopUpdateHandler(h, method)
    \/ \E h \in Handlers : StopHandlerLock(h)
    \/ \E h \in Handlers, files \in ReloadFiles : StopHandlerLoad(h, files)
    \/ \E h \in Handlers : StopHandlerSend(h)
    \/ ListenerDone
    \/ StopCmdRecv
    \/ StopWalkStep
    \/ StopWalkSend
    \/ StopUpdateStep
    \/ StopUpdateInstall
    \/ WalkSendClosed
    \/ UpdateSendClosed
    \/ CmdDone
    \/ StopUnboundRun
    \/ UnboundDone
    \/ MainWait

SpecStop == InitStop /\ [][NextStop]_vars

\* ==================================================== getHost and its cache
\* DnsTapDecoder.getHost (part_000:78-95) with dec.ipToHost, on its own: a
\* sequence of calls while the clock moves on.
\* Time is counted in half hours.
Hour == 2

\* The address bytes of a frame: a nil slice, an empty one, or an address.
Addr(isNil, bytes) == [nil |-> isNil, bytes |-> bytes]
Addrs ==
    { Addr(TRUE, <<>>), Addr(FALSE, <<>>),
      Addr(FALSE, <<10, 0, 0, 1>>), Addr(FALSE, <<10, 0, 0, 2>>) }

\* net.IP(addr).String(): "<nil>" for no bytes, else the dotted form.
IPString(bytes) ==
    CASE Len(bytes) = 0 -> "<nil>"
      [] bytes = <<10, 0, 0, 1>> -> "10.0.0.1"
      [] bytes = <<10, 0, 0, 2>> -> "10.0.0.2"
      [] OTHER -> "?"

\* dec.resolver.LookupAddr: (hosts, err).
Lookup(err, hosts) == [err |-> err, hosts |-> hosts]
Lookups ==
    { Lookup(FALSE, <<"pc.lan.">>), Lookup(FALSE, <<"tv.lan.", "pc.lan.">>),
      Lookup(TRUE, <<>>), Lookup(FALSE, <<>>), Lookup(FALSE, <<"">>) }
\* What is not an address has no reverse name.
LookupAddr(ip, outcome) ==
    IF ip \in {"<nil>", "?"} THEN Lookup(TRUE, <<>>) ELSE outcome

hostItem(host, timestamp) == [host |-> host, timestamp |-> timestamp]

\* host.timestamp.Add(time.Hour).Before(now) (83)
StaleAlways(item, t) == TRUE
Stale(item, t) == item.timestamp + Hour < t

\* else if host == nil { host = &hostItem{ip, now} } (87-89): the item a
\* failed resolution leaves for ip.
FailureItemOverwrite(cache, ip, t) == hostItem(ip, t)
FailureItem(cache, ip, t) ==
    IF ip \in DOMAIN cache THEN cache[ip] ELSE hostItem(ip, t)

\* getHost: the host returned, the cache after the call, and whether the
\* resolver was asked.
getHost(cache, addr, t, outcome) ==
    IF addr.nil
    THEN [host |-> "", cache |-> cache, resolved |-> FALSE]
    ELSE LET ip == IPString(addr.bytes)
             exists == ip \in DOMAIN cache
         IN  IF ~exists \/ Stale(cache[ip], t)
             THEN LET got == LookupAddr(ip, outcome)
                      item == IF ~got.err /\ Len(got.hosts) > 0
                                 /\ got.hosts[1] # ""
                              THEN hostItem(got.hosts[1], t)
                              ELSE FailureItem(cache, ip, t)
                  IN  [host |-> item.host, cache |-> MapPut(cache, ip, item),
                       resolved |-> TRUE]
             ELSE [host |-> cache[ip].host, cache |-> cache,
                   resolved |-> FALSE]

NoCall ==
    [n |-> 0, addr |-> Addr(TRUE, <<>>), outcome |-> Lookup(TRUE, <<>>),
     before |-> EmptyMap, at |-> 0, host |-> "", resolved |-> FALSE,
     prev |-> [ip |-> "", kind |-> "none"]]
\* What a call did, for the call after it: a resolution that failed on an
\* entry it found ("kept"), one that failed with no entry ("fallback"), or
\* anything else.
CallKind(cache, addr, r, got) ==
    [ip |-> IF addr.nil THEN "" ELSE IPString(addr.bytes),
     kind |-> IF addr.nil \/ ~r.resolved THEN "other"
              ELSE IF ~got.err /\ Len(got.hosts) > 0 /\ got.hosts[1] # ""
              THEN "other"
              ELSE IF IPString(addr.bytes) \in DOMAIN cache THEN "kept"
              ELSE "fallback"]
CacheInit ==
    /\ ipToHost = EmptyMap
    /\ now = 0
    /\ chist = NoCall

\* One call of getHost.
GetHost(addr, outcome) ==
    /\ chist.n < MaxLookups
    /\ LET r == getHost(ipToHost, addr, now, outcome)
       IN  /\ ipToHost' = r.cache
           /\ chist' = [n |-> chist.n + 1, addr |-> addr,
                        outcome |-> IF addr.nil THEN Lookup(TRUE, <<>>)
                                    ELSE LookupAddr(IPString(addr.bytes),
                                                    outcome),
                        before |-> ipToHost, at |-> now, host |-> r.host,
                        resolved |-> r.resolved,
                        prev |-> IF chist.n = 0 THEN chist.prev
                                 ELSE CallKind(chist.before, chist.addr,
                                               chist, chist.outcome)]
    /\ UNCHANGED now
    /\ UNCHANGED <<engineVars, listVars, decoderVars, stopVars>>

\* time.Now() moves on.
Tick ==
    /\ now < MaxTime
    /\ now' = now + 1
    /\ UNCHANGED <<ipToHost, chist>>
    /\ UNCHANGED <<engineVars, listVars, decoderVars, stopVars>>

InitCache == CacheInit /\ EngineIdle /\ ListsIdle /\ DecoderIdle /\ StopIdle

NextCache ==
    \/ \E addr \in Addrs, outcome \in Lookups : GetHost(addr, outcome)
    \/ Tick

SpecCache == InitCache /\ [][NextCache]_vars

\* ================================================================ claims
\* ---- what the claims about the engine read from the history
cur == hist.cur
curMessage == cur.message
\* The loop has received a command and is through with it.
Completed == loop.pc = "recv" /\ cur.id > 0
\* ... or has stopped in it with a run-time panic.
Finished == loop.pc \in {"recv", "panic"} /\ cur.id > 0
\* The unbound commands sent since the current command was received.
EmittedSince == SubSeq(hist.emitted, cur.emitted0 + 1, Len(hist.emitted))
\* The reloads enqueued before the command with this id.
UpdatesBefore(id) ==
    {i \in 1..(id - 1) : hist.enq[i].command = UpdateListsCommand}
\* The set that the reloads enqueued before this command leave installed.
BaseBefore(id) ==
    IF UpdatesBefore(id) = {} THEN hist.initial
    ELSE hist.enq[CHOOSE i \in UpdatesBefore(id) :
                    \A j \in UpdatesBefore(id) : j <= i].domains

\* The CNAME relation of an Answer section: each owner name with the target
\* of its last CNAME record.
CnameOwners(answer) ==
    {answer[i].name : i \in {j \in 1..Len(answer) : answer[j].rrtype = "CNAME"}}
ChainOf(answer) ==
    [n \in CnameOwners(answer) |->
        answer[CHOOSE i \in 1..Len(answer) :
                 /\ answer[i].rrtype = "CNAME" /\ answer[i].name = n
                 /\ \A j \in (i + 1)..Len(answer) :
                       ~(answer[j].rrtype = "CNAME" /\ answer[j].name = n)
              ].target]
\* The name k CNAME hops after n, "" when the chain ends before.
RECURSIVE Hop(_, _, _)
Hop(chain, n, k) ==
    IF k = 0 THEN n
    ELSE LET p == Hop(chain, n, k - 1)
         IN  IF p \in DOMAIN chain THEN chain[p] ELSE ""
\* The hop counts at which the chain from qname is at a blocked name with no
\* blocked name before it.
FirstBlockedHops(chain, qname, domains) ==
    {k \in 1..Cardinality(DOMAIN chain) :
        /\ Hop(chain, qname, k) \in domains
        /\ \A j \in 1..(k - 1) : Hop(chain, qname, j) \notin domains}

\* C1: a traffic record is evaluated against the set left by exactly the
\* reloads enqueued before it (that set plus the names the walk has added
\* since), and the set is not replaced while its walk is in progress.
ReloadOrdering ==
    (cur.id > 0 /\ cur.command = DnsTapCommand) =>
        /\ cur.applied0 = Cardinality(UpdatesBefore(cur.id))
        /\ cur.base0 = BaseBefore(cur.id)
        /\ cur.domains0 = BaseBefore(cur.id) \cup cur.fresh0
        /\ loop.pc = "walk" =>
              (hist.applied = cur.applied0 /\ blockedDomains = cur.domains0)
        /\ loop.pc = "sendAdd" =>
              (hist.applied = cur.applied0
               /\ blockedDomains \ {loop.qname} = cur.domains0)

\* A walk in progress after one reload, with a reload of another set waiting.
ReloadOrderingWitness ==
    /\ loop.pc = "walk"
    /\ cur.applied0 = 1
    /\ \E i \in 1..Len(commands) :
          /\ commands[i].command = UpdateListsCommand
          /\ commands[i].blockedDomains # hist.base

CloakKeysBlocked == DOMAIN blockedCnames \subseteq blockedDomains

\* C4: a record whose qname is not blocked and whose chain reaches a blocked
\* name gives exactly one ZoneAdd of qname, qname -> the first blocked target
\* in blockedCnames and qname in blockedDomains; the same record processed
\* again with no reload in between gives no command and no change.
ChainWalkHit ==
    (Completed /\ cur.command = DnsTapCommand) =>
        /\ \A k \in (IF curMessage.dns /\ curMessage.question # <<>>
                        /\ curMessage.question[1] \notin cur.domains0
                     THEN FirstBlockedHops(ChainOf(curMessage.answer),
                                           curMessage.question[1],
                                           cur.domains0)
                     ELSE {}) :
              LET qname == curMessage.question[1]
                  target == Hop(ChainOf(curMessage.answer), qname, k)
              IN  /\ EmittedSince = <<UnboundCommandMessage(ZoneAdd, qname)>>
                  /\ blockedCnames = MapPut(cur.cnames0, qname, target)
                  /\ blockedDomains = cur.domains0 \cup {qname}
        /\ cur.again =>
              /\ EmittedSince = <<>>
              /\ blockedCnames = cur.cnames0
              /\ blockedDomains = cur.domains0

\* The two-hop chain was hit, and the same record has now gone through again.
ChainWalkHitWitness ==
    /\ Completed
    /\ cur.again
    /\ curMessage = Message(TRUE, <<na>>,
                            <<CNAME(na, nb), CNAME(nb, nc), A(nc)>>)
    /\ na \in DOMAIN blockedCnames
    /\ blockedCnames[na] = nc
    /\ hist.emitted = <<UnboundCommandMessage(ZoneAdd, na)>>

\* C5: a reload gives exactly one ZoneRemove for every entry whose target is
\* not in the new set and removes exactly those entries.
ReloadCleanup ==
    (Completed /\ cur.command = UpdateListsCommand) =>
        LET removed == {q \in DOMAIN cur.cnames0 :
                           cur.cnames0[q] \notin cur.newDomains}
        IN  /\ blockedCnames =
                  [q \in DOMAIN cur.cnames0 \ removed |-> cur.cnames0[q]]
            /\ Len(EmittedSince) = Cardinality(removed)
            /\ Range(EmittedSince) =
                  {UnboundCommandMessage(ZoneRemove, q) : q \in removed}

\* A reload that removed one entry and kept another.
ReloadCleanupWitness ==
    /\ Completed
    /\ cur.command = UpdateListsCommand
    /\ blockedCnames # EmptyMap
    /\ DOMAIN blockedCnames # DOMAIN cur.cnames0

\* C6: a record with no parsed message, no answer, no CNAME in its answer,
\* or a qname that is already blocked gives no unbound command and changes
\* neither blockedDomains nor blockedCnames.
NoOpRecords ==
    (Finished /\ cur.command = DnsTapCommand
        /\ \/ ~curMessage.dns
           \/ curMessage.answer = <<>>
           \/ CnameOwners(curMessage.answer) = {}
           \/ (curMessage.question # <<>>
               /\ curMessage.question[1] \in cur.domains0)) =>
        /\ EmittedSince = <<>>
        /\ blockedDomains = cur.domains0
        /\ blockedCnames = cur.cnames0

\* A record whose qname is blocked and whose chain leads to a blocked name.
NoOpRecordsWitness ==
    /\ Completed
    /\ cur.command = DnsTapCommand
    /\ curMessage = Message(TRUE, <<nb>>, <<CNAME(nb, nc), A(nc)>>)
    /\ {nb, nc} \subseteq cur.domains0
    /\ blockedCnames # EmptyMap

\* ---- what the claims about the lists read
\* The names a file lists, whatever the order and the spelling of its lines.
ListedNames(file) ==
    {l.stem \o "." : l \in {x \in Range(file.lines) : x.stem \in Stems}}
AllLoaded(files) ==
    \A f \in {files.blocked, files.white, files.black} : f.status = "ok"

\* C7: the set built is (base + supplementary) - allow, whatever the order
\* of the lines; a name on the supplementary and on the allow list is out.
ListComposition ==
    (built # <<>> /\ AllLoaded(listFiles)) =>
        /\ ~built[1].err
        /\ built[1].domains =
              (ListedNames(listFiles.blocked) \cup ListedNames(listFiles.black))
                 \ ListedNames(listFiles.white)
        /\ \A n \in ListedNames(listFiles.black) \cap
                    ListedNames(listFiles.white) : n \notin built[1].domains

\* A name on both the supplementary and the allow list, spelled differently,
\* and another name that stays blocked.
ListCompositionWitness ==
    /\ built # <<>>
    /\ listFiles.black = File("ok", <<Line(FALSE, "a.io", FALSE),
                                      Line(FALSE, "b.io", TRUE)>>)
    /\ listFiles.white = File("ok", <<Line(TRUE, "a.io", TRUE)>>)
    /\ listFiles.blocked = File("ok", <<>>)
    /\ built[1].domains = {"b.io."}

\* C8: a reload whose lists fail to load is answered 500, enqueues no
\* command, sends no unbound command and leaves blockedDomains and
\* blockedCnames as they are.
FailedReads == {i \in 1..Len(hist.reads) : hist.reads[i].failed}
LoadFailureAnswered ==
    \A i \in FailedReads :
        /\ \A j \in 1..Len(hist.enq) : hist.enq[j].req # hist.reads[i].req
        /\ \A h \in Handlers :
              handler[h].req = hist.reads[i].req =>
                  (handler[h].pc = "idle" /\ handler[h].resp = 500)
LoadFailureStep ==
    /\ Len(hist'.reads) = Len(hist.reads) + 1
    /\ hist'.reads[Len(hist'.reads)].failed
ReadReqs ==
    LET ok == SelectSeq(hist.reads, LAMBDA r : ~r.failed)
    IN  [i \in 1..Len(ok) |-> ok[i].req]
EnqueuedReqs ==
    LET up == SelectSeq(hist.enq, LAMBDA e : e.command = UpdateListsCommand)
    IN  [i \in 1..Len(up) |-> up[i].req]
ReloadsSerialized ==
    /\ Cardinality({h \in Handlers : handler[h].pc \in {"load", "send"}}) <= 1
    /\ \A h \in Handlers :
          handler[h].pc \in {"load", "send"} => httpMutex = handler[h].req
    /\ Len(EnqueuedReqs) <= Len(ReadReqs)
    /\ EnqueuedReqs = SubSeq(ReadReqs, 1, Len(EnqueuedReqs))

\* One request is about to enqueue behind a waiting command while the other
\* waits for the mutex.
ReloadsSerializedWitness ==
    /\ \E h \in Handlers : handler[h].pc = "send"
    /\ \E h \in Handlers : handler[h].pc = "lock"
    /\ commands # <<>>

\* ---- what the claims about the decoder read
\* The arrival numbers of the MESSAGE frames among the first k frames.
HandledIds(k) ==
    LET ids == {i \in 1..k : dhist.arrived[i].type = "MESSAGE"}
        RECURSIVE Sorted(_)
        Sorted(S) == IF S = {} THEN <<>>
                     ELSE LET m == CHOOSE x \in S : \A y \in S : x <= y
                          IN  <<m>> \o Sorted(S \ {m})
    IN  Sorted(ids)
Ids(messages) == [i \in 1..Len(messages) |-> messages[i].id]
\* The frames whose fan-out to processor p is over.
FannedOut(p) ==
    IF dec.pc = "fatal" \/ (dec.pc = "send" /\ p >= dec.idx)
    THEN dhist.taken - 1 ELSE dhist.taken

BackPressure ==
    /\ Len(channel) <= BufferSize
    /\ \A p \in Processors : Len(procChans[p]) <= BufferSize
    /\ Len(dhist.arrived) = dhist.taken + Len(channel)
    /\ \A i \in 1..Len(channel) :
          /\ channel[i].id = dhist.taken + i
          /\ channel[i].frame = dhist.arrived[dhist.taken + i]
    /\ \A p \in Processors :
          dhist.delivered[p] = dhist.received[p] \o procChans[p]
    /\ dec.pc # "fatal" =>
          \A p \in Processors : \A i \in Range(HandledIds(dhist.taken)) :
              \/ \E k \in 1..Len(dhist.delivered[p]) :
                    dhist.delivered[p][k].id = i
              \/ dec.pc = "send" /\ dec.message.id = i /\ dec.idx <= p

\* Run waits on a full processor channel with a message in hand while
\* dec.channel is full behind it.
BackPressureWitness ==
    /\ dec.pc = "send"
    /\ Len(procChans[dec.idx]) = BufferSize
    /\ Len(channel) = BufferSize
    /\ Len(dhist.arrived) = MaxFrames

\* C12: Run closes a processor's channel only after dec.channel was closed
\* and every frame read into it was received and fanned out; it closes the
\* channels in registration order, reports completion after the last one,
\* and sends nothing on a channel it has closed.
Closing == dec.pc \in {"close", "closed", "done"}
CloseOrderState ==
    /\ (Closing \/ \E p \in Processors : procClosed[p]) =>
          /\ Closing
          /\ channelClosed
          /\ channel = <<>>
          /\ dhist.taken = Len(dhist.arrived)
          /\ \A p \in Processors :
                Ids(dhist.delivered[p]) = HandledIds(Len(dhist.arrived))
    /\ \A p \in Processors :
          procClosed[p] <=> (Closing /\ (dec.pc = "close" => p < dec.idx))
    /\ dec.pc = "close" => dec.idx \in Processors
CloseOrderStep ==
    \A p \in Processors :
        procClosed[p] => /\ procClosed'[p]
                         /\ dhist'.delivered[p] = dhist.delivered[p]
CloseOrder == []CloseOrderState /\ [][CloseOrderStep]_vars

\* Frames were still buffered when dec.channel was closed, a message among
\* them; Run has fanned them out, closed both channels and reported.
CloseOrderWitness ==
    /\ dec.pc = "done"
    /\ \A p \in Processors : procClosed[p]
    /\ dhist.pending = BufferSize
    /\ \A p \in Processors :
          Len(dhist.delivered[p]) >= 1
          /\ dhist.delivered[p][Len(dhist.delivered[p])].id = Len(dhist.arrived)

\* C13: once dec.channel is closed the pipeline runs to the end: until main
\* is past wg.Wait() some task can always take a step; a processor calls
\* wg.Done() only after it has handled every message the decoder sent it;
\* Run of the CnameProcessor calls it only after its three goroutines have;
\* and main passes wg.Wait() only after the decoder and both processors
\* have called wg.Done().
ShutdownCompletes ==
    /\ channelClosed => (main = "exit" \/ ENABLED NextStop)
    /\ "influx" \in done =>
          /\ dhist.received[Influx] = dhist.delivered[Influx]
          /\ Ids(dhist.delivered[Influx]) = HandledIds(Len(dhist.arrived))
    /\ "cnames" \in done =>
          /\ Children \subseteq done
          /\ dhist.received[Cnames] = dhist.delivered[Cnames]
          /\ Ids(dhist.delivered[Cnames]) = HandledIds(Len(dhist.arrived))
          /\ Len(hist.deq) = Len(hist.enq)
          /\ commands = <<>>
          /\ loop.pc = "done"
    /\ main = "exit" => /\ {"influx", "cnames"} \subseteq done
                        /\ dec.pc = "done"

\* ---- what the claims about the sends to the unbound queue read
\* A step of processCommands.
LoopStep == CmdRecv \/ WalkStep \/ WalkSend \/ UpdateStep \/ UpdateInstall
\* The loop is at a send to the unbound channel: the ZoneAdd of a hit, or a
\* ZoneRemove with nothing else left to visit in blockedCnames.
AtSend ==
    \/ loop.pc = "sendAdd"
    \/ /\ loop.pc = "update"
       /\ loop.todo # {}
       /\ \A qname \in loop.todo :
             NoLongerBlocked(loop.newDomains, qname, blockedCnames[qname])

\* C14 as stated: at a send to the unbound channel the loop can always go on.
IssueNeverBlocks == AtSend => ENABLED LoopStep

\* C14: a send to the unbound channel goes on at once exactly when the queue
\* has room; while the queue is full the loop waits at the send.
IssueWaitsWhenFull ==
    AtSend => (ENABLED LoopStep <=> Len(unboundChan) < UnboundCap)

\* The loop waits at the ZoneAdd of a second hit behind a full queue.
IssueWaitsWhenFullWitness ==
    /\ loop.pc = "sendAdd"
    /\ Len(unboundChan) = UnboundCap
    /\ ~ENABLED LoopStep

\* ---- what the claims about getHost read from the last call
Called == chist.n > 0
LastIp == IPString(chist.addr.bytes)
EmptyInput == chist.addr.nil \/ Len(chist.addr.bytes) = 0
Failed ==
    \/ chist.outcome.err
    \/ chist.outcome.hosts = <<>>
    \/ chist.outcome.hosts[1] = ""

\* C15: getHost returns "" exactly when the address is absent or has no
\* bytes, and then neither reads nor writes the cache nor asks the resolver;
\* for any other address it returns a non-empty string.
EmptyInputNoEffect ==
    Called =>
        /\ (chist.host = "") <=> EmptyInput
        /\ EmptyInput => (~chist.resolved /\ ipToHost = chist.before)

\* C16: a call for an address whose cache entry is less than one hour old
\* does not ask the resolver, returns the cached host and leaves the cache
\* as it was.
FreshNoResolve ==
    (Called /\ ~chist.addr.nil /\ LastIp \in DOMAIN chist.before) =>
        (chist.at - chist.before[LastIp].timestamp < Hour =>
            /\ ~chist.resolved
            /\ chist.host = chist.before[LastIp].host
            /\ ipToHost = chist.before)

\* The entry was half an hour old and the resolver would have answered
\* with another name.
FreshNoResolveWitness ==
    /\ Called
    /\ ~chist.addr.nil
    /\ LastIp \in DOMAIN chist.before
    /\ chist.at - chist.before[LastIp].timestamp = 1
    /\ ~Failed
    /\ chist.outcome.hosts[1] # chist.before[LastIp].host
    /\ chist.host = chist.before[LastIp].host

\* C17: a failed resolution stores and returns the address string, stamped
\* with the time of the call, when the address has no entry, and leaves an
\* existing entry as it was and returns its host; no call removes an entry
\* or changes another address's entry, and a host that is not the address
\* string is never replaced by the address string.
FailureKeeps ==
    Called =>
        /\ (chist.resolved /\ Failed) =>
              IF LastIp \in DOMAIN chist.before
              THEN /\ ipToHost = chist.before
                   /\ chist.host = chist.before[LastIp].host
              ELSE /\ ipToHost = MapPut(chist.before, LastIp,
                                        hostItem(LastIp, chist.at))
                   /\ chist.host = LastIp
        /\ DOMAIN chist.before \subseteq DOMAIN ipToHost
        /\ \A ip \in DOMAIN chist.before :
              /\ ip # LastIp => ipToHost[ip] = chist.before[ip]
              /\ chist.before[ip].host # ip => ipToHost[ip].host # ip

\* A name resolved more than an hour ago was kept when the resolver failed.
FailureKeepsWitness ==
    /\ Called
    /\ chist.resolved
    /\ Failed
    /\ LastIp \in DOMAIN chist.before
    /\ chist.before[LastIp].host = "pc.lan."
    /\ chist.at - chist.before[LastIp].timestamp > Hour
    /\ chist.host = "pc.lan."

\* C18: when a reload has been processed blockedDomains is exactly the set
\* the command carried: a name the walk had added to the previous set is in
\* it only if the new set holds that name.
ReloadReplaces ==
    (Completed /\ cur.command = UpdateListsCommand) =>
        /\ blockedDomains = cur.newDomains
        /\ \A qname \in cur.fresh0 :
              qname \in blockedDomains <=> qname \in cur.newDomains

\* The walk had added a name that the new set does not hold: it is gone,
\* though its entry in blockedCnames stays.
ReloadReplacesWitness ==
    /\ Completed
    /\ cur.command = UpdateListsCommand
    /\ \E qname \in cur.fresh0 :
          /\ qname \in cur.domains0
          /\ qname \notin blockedDomains
          /\ qname \in DOMAIN blockedCnames

\* The walk from check is over at hop k: the name reached has no entry, or
\* the name it maps to is blocked.
WalkEndsAt(chain, check, domains, k) ==
    \/ Hop(chain, check, k + 1) = ""
    \/ Hop(chain, check, k + 1) \in domains
\* No end within as many hops as the chain has owners: the walk is on a cycle
\* of names that are not blocked.
Cyclic(chain, check, domains) ==
    \A k \in 0..Cardinality(DOMAIN chain) :
        ~WalkEndsAt(chain, check, domains, k)
\* The turns the walk still has to make before the one that ends it.
TurnsLeft(chain, check, domains) ==
    CHOOSE k \in 0..Cardinality(DOMAIN chain) :
        /\ WalkEndsAt(chain, check, domains, k)
        /\ \A j \in 0..(k - 1) : ~WalkEndsAt(chain, check, domains, j)
Hung == loop.pc = "walk" /\ Cyclic(loop.cnames, loop.check, blockedDomains)

\* C19: a walk always has a next turn; when the chain from qname ends or
\* reaches a blocked name, every turn leaves fewer turns to make, so the walk
\* terminates; when the chain is on a cycle of unblocked names (a self-loop
\* included), no turn leaves the walk, and the loop takes no later Command.
WalkTurn ==
    (loop.pc = "walk" /\ loop' # loop) =>
        IF Cyclic(loop.cnames, loop.check, blockedDomains)
        THEN /\ loop'.pc = "walk"
             /\ Cyclic(loop'.cnames, loop'.check, blockedDomains')
             /\ commands' = commands
             /\ hist'.deq = hist.deq
             /\ blockedDomains' = blockedDomains
             /\ blockedCnames' = blockedCnames
        ELSE \/ loop'.pc # "walk"
             \/ /\ ~Cyclic(loop'.cnames, loop'.check, blockedDomains')
                /\ TurnsLeft(loop'.cnames, loop'.check, blockedDomains')
                      < TurnsLeft(loop.cnames, loop.check, blockedDomains)
WalkTermination ==
    /\ [](loop.pc = "walk" => ENABLED WalkStep)
    /\ [][WalkTurn]_vars
WalkTerminationWitness ==
    /\ Hung
    /\ loop.check # loop.qname
    /\ commands # <<>>
\* A walk that ended after more than one turn.
WalkEndedWitness ==
    /\ Completed
    /\ cur.command = DnsTapCommand
    /\ Cardinality(DOMAIN ChainOf(curMessage.answer)) > 1
    /\ cur.message \notin hist.hits

\* The queue after the step is the queue before it, that queue with one
\* command appended, or that queue without its head: no queued command, and
\* so no queued set, is altered.
QueueStep ==
    \/ commands' = commands
    \/ /\ Len(commands') = Len(commands) + 1
       /\ SubSeq(commands', 1, Len(commands)) = commands
    \/ commands # <<>> /\ commands' = Tail(commands)
\* A step of Run/processMessage or of a call of updateHandler.
OutsideStep == runMsg' # runMsg \/ handler' # handler
\* A step that writes the block set or the cloak map.
OwnedWrite == blockedDomains' # blockedDomains \/ blockedCnames' # blockedCnames

\* C20: only steps of the command loop write blockedDomains and
\* blockedCnames; a step of the traffic path or of the reload handler leaves
\* both and the loop alone and at most appends one command to the queue; a
\* queued set is never altered, and the handler holds a set only between
\* building it and enqueueing it.
SingleOwnerStep ==
    /\ OwnedWrite =>
          /\ loop.pc \in {"walk", "update"}
          /\ loop' # loop
          /\ ~OutsideStep
          /\ commands' = commands
    /\ OutsideStep =>
          /\ ~OwnedWrite
          /\ loop' = loop
          /\ commands' # commands => Len(commands') = Len(commands) + 1
    /\ QueueStep
SingleOwner ==
    /\ [](\A h \in Handlers : handler[h].pc # "send" => handler[h].result = {})
    /\ [][SingleOwnerStep]_vars
\* A reload's set has been installed by the loop while the handler that built
\* it is idle again and another call holds a set of its own.
SingleOwnerWitness ==
    /\ hist.applied > 0
    /\ blockedDomains # hist.initial
    /\ \E h \in Handlers :
          handler[h].pc = "send" /\ handler[h].result # blockedDomains
    /\ \E h \in Handlers : handler[h].pc = "idle" /\ handler[h].resp = 200

\* ---- what the claims about the shutdown of the engine read
\* Running while Run ranges over proc.messages, Draining from the end of
\* that range to the return of childrenWg.Wait(), Stopped after wg.Done().
Running == 0
Draining == 1
Stopped == 2
EngineState ==
    IF run = "range" THEN Running
    ELSE IF run = "done" THEN Stopped
    ELSE Draining

\* C21: the engine's state never goes back; it is Draining or Stopped only
\* with its input channel closed and empty and no message in hand; it is
\* Stopped only with every enqueued command dispatched and the loop returned,
\* the worker of the unbound queue returned with nothing queued, and the
\* listener returned with no handler running.
ForwardOnlyState ==
    /\ EngineState >= Draining =>
          /\ procClosed[Cnames]
          /\ procChans[Cnames] = <<>>
          /\ runMsg = Nil
    /\ EngineState = Stopped =>
          /\ "cnames" \in done
          /\ Children \subseteq done
          /\ loop.pc = "done"
          /\ commands = <<>>
          /\ Len(hist.deq) = Len(hist.enq)
          /\ unboundChan = <<>>
          /\ serverClosed
          /\ \A h \in Handlers : handler[h].pc = "idle"
    /\ "cnames" \in done => EngineState = Stopped
ForwardOnly ==
    /\ []ForwardOnlyState
    /\ [][EngineState' >= EngineState]_vars
ForwardOnlyWitness ==
    /\ EngineState = Stopped
    /\ dhist.pending > 0
    /\ hist.applied > 0
    /\ Len(hist.deq) >= 2

\* The loop is at a send to the unbound queue: the ZoneAdd of a walk that
\* has hit (429-432), or the ZoneRemove of a reload for an entry whose target
\* is no longer blocked (382-385).
AtUnboundSend ==
    \/ loop.pc = "sendAdd"
    \/ /\ loop.pc = "update"
       /\ \E qname \in loop.todo :
             NoLongerBlocked(loop.newDomains, qname, blockedCnames[qname])

\* C22: the command loop is never at a send to the unbound queue, and has
\* never panicked in one, once Run has closed that queue: whatever it emits
\* for the commands buffered when proc.commands was closed is sent first.
NoSendOnClosed ==
    unboundClosed => (~AtUnboundSend /\ loop.pc # "panic")

\* C23: when proc.commands is closed no call of updateHandler is running
\* and Run holds no message, no call has ever sent on the closed channel,
\* and from then on nothing is appended to the channel: a call in flight when
\* the input closes has enqueued before the close, or has ended without
\* enqueueing.
NoEnqueueOnClosedState ==
    /\ commandsClosed =>
          /\ \A h \in Handlers : handler[h].pc = "idle"
          /\ runMsg = Nil
          /\ run \notin {"range", "shutdown", "shutdownWait", "closeCommands"}
    /\ \A h \in Handlers : handler[h].resp # Aborted
NoEnqueueOnClosedStep ==
    commandsClosed =>
        /\ hist'.enq = hist.enq
        /\ commands' = commands \/ commands' = Tail(commands)
NoEnqueueOnClosed ==
    /\ []NoEnqueueOnClosedState
    /\ [][NoEnqueueOnClosedStep]_vars
\* proc.commands was closed after a call that was running when Shutdown was
\* called had enqueued its set, which the loop installed after the close.
NoEnqueueOnClosedWitness ==
    /\ commandsClosed
    /\ hist.applied > 0
    /\ \E h \in Handlers :
          /\ handler[h].resp = 200
          /\ handler[h].req \in hist.inflight

\* The commands the loop has sent for one domain, in the order it sent them.
EmittedFor(qname) == SelectSeq(hist.emitted, LAMBDA m : m.domain = qname)

\* C24: for every domain the commands sent for it alternate, ZoneAdd first:
\* the odd ones are ZoneAdd and the even ones ZoneRemove.
Alternation ==
    \A qname \in {hist.emitted[i].domain : i \in 1..Len(hist.emitted)} :
        \A i \in 1..Len(EmittedFor(qname)) :
            EmittedFor(qname)[i].cmd = (IF i % 2 = 1 THEN ZoneAdd ELSE ZoneRemove)

\* C25: the target of every entry of blockedCnames is in blockedDomains, in
\* every state, those in the middle of a reload included.
CloakTargetsBlocked ==
    \A qname \in DOMAIN blockedCnames : blockedCnames[qname] \in blockedDomains
\* A reload has removed one entry and kept another.
CloakTargetsBlockedWitness ==
    /\ Completed
    /\ cur.command = UpdateListsCommand
    /\ blockedCnames # EmptyMap
    /\ DOMAIN blockedCnames # DOMAIN cur.cnames0

\* C26: a traffic record with parsed DNS content never leaves the loop in a
\* run-time panic, and a record with answers and no question is processed to
\* the end with nothing sent to the unbound queue.
NoQuestionTolerated ==
    (cur.id > 0 /\ cur.command = DnsTapCommand /\ curMessage.dns) =>
        /\ loop.pc # "panic"
        /\ (Finished /\ curMessage.question = <<>> /\ curMessage.answer # <<>>) =>
              (Completed /\ EmittedSince = <<>>)

\* The call before the last one was for the same address.
SameAsPrev == Called /\ ~chist.addr.nil /\ chist.prev.ip = LastIp

\* C27: a resolution that fails on a stale entry leaves the entry's
\* timestamp as it was, so the next call for the address asks the resolver
\* again, and a resolution that succeeds stamps the entry with the time of
\* the call; a resolution that fails with no entry stores the address stamped
\* with the time of the call, and the next call for the address within the
\* hour does not ask the resolver.
StaleRetry ==
    (Called /\ ~chist.addr.nil) =>
        /\ (chist.resolved /\ Failed /\ LastIp \in DOMAIN chist.before) =>
              /\ ipToHost[LastIp].timestamp = chist.before[LastIp].timestamp
              /\ ipToHost[LastIp].timestamp + Hour < chist.at
        /\ (chist.resolved /\ Failed /\ LastIp \notin DOMAIN chist.before) =>
              ipToHost[LastIp] = hostItem(LastIp, chist.at)
        /\ (chist.resolved /\ ~Failed) => ipToHost[LastIp].timestamp = chist.at
        /\ (SameAsPrev /\ chist.prev.kind = "kept") => chist.resolved
        /\ (SameAsPrev /\ chist.prev.kind = "fallback") =>
              /\ chist.before[LastIp].host = LastIp
              /\ chist.resolved <=>
                    chist.before[LastIp].timestamp + Hour < chist.at
\* A resolution failed on a stale entry, and the call after it, for the same
\* address, asked the resolver again and got a name.
StaleRetryWitness ==
    /\ SameAsPrev
    /\ chist.prev.kind = "kept"
    /\ chist.resolved
    /\ ~Failed
    /\ ipToHost[LastIp].host # chist.before[LastIp].host
\* A fallback entry that was an hour old was returned without a resolution.
FallbackHeldWitness ==
    /\ SameAsPrev
    /\ chist.prev.kind = "fallback"
    /\ LastIp # "<nil>"
    /\ chist.at = chist.before[LastIp].timestamp + Hour
    /\ ~chist.resolved
    /\ chist.host = LastIp

\* C28: Run hands a message to the processors one after the other in
\* registration order: while it is sending, the processors before the one it
\* is at have the message as their last and the others have nothing as late;
\* between messages every processor has been handed the same; each send
\* appends the message in hand to the channel of the processor Run is at and
\* to no other; and while that channel is full nothing is handed to any
\* processor and Run takes no further frame.
HeadOfLineState ==
    /\ dec.pc = "send" =>
          \A p \in Processors :
              IF p < dec.idx
              THEN /\ dhist.delivered[p] # <<>>
                   /\ dhist.delivered[p][Len(dhist.delivered[p])] = dec.message
              ELSE \A k \in 1..Len(dhist.delivered[p]) :
                       dhist.delivered[p][k].id < dec.message.id
    /\ dec.pc # "send" =>
          \A p, q \in Processors : dhist.delivered[p] = dhist.delivered[q]
HeadOfLineStep ==
    /\ \A p \in Processors :
          dhist'.delivered[p] # dhist.delivered[p] =>
              /\ dec.pc = "send"
              /\ dec.idx = p
              /\ dhist'.delivered[p] = Append(dhist.delivered[p], dec.message)
              /\ \A q \in Processors \ {p} :
                    dhist'.delivered[q] = dhist.delivered[q]
    /\ (dec.pc = "send" /\ Len(procChans[dec.idx]) = BufferSize) =>
          /\ dhist'.delivered = dhist.delivered
          /\ dhist'.taken = dhist.taken
          /\ dec' = dec
HeadOfLine ==
    /\ []HeadOfLineState
    /\ [][HeadOfLineStep]_vars
\* Run waits on the full channel of the first processor while the channel of
\* the second is empty and further frames are buffered.
HeadOfLineWitness ==
    /\ dec.pc = "send"
    /\ dec.idx = 1
    /\ Len(procChans[1]) = BufferSize
    /\ procChans[NumProcessors] = <<>>
    /\ dhist.received[NumProcessors] # <<>>
    /\ channel # <<>>

\* ---- what the claims about an answered reload read
\* The command enqueued as the i-th was dispatched and the loop is through
\* with it.
Applied(i) ==
    \E k \in 1..Len(hist.deq) :
        /\ hist.deq[k] = i
        /\ k < Len(hist.deq) \/ loop.pc \in {"recv", "done"}
\* The reloads that were enqueued, each answered 200 in the step that
\* enqueued it, and are not applied yet.
AnsweredNotApplied ==
    {i \in 1..Len(hist.enq) :
        hist.enq[i].command = UpdateListsCommand /\ ~Applied(i)}

\* C29: a call is answered 200 only with its command enqueued, and while a
\* reload that was answered 200 is not applied the pipeline is not stuck:
\* some task can take a step.
AnsweredReloadApplied ==
    /\ \A h \in Handlers :
          handler[h].resp = 200 =>
              \E i \in 1..Len(hist.enq) :
                  /\ hist.enq[i].command = UpdateListsCommand
                  /\ hist.enq[i].req = handler[h].req
    /\ AnsweredNotApplied # {} => ENABLED NextStop

\* ---- what the claim about deadlock reads
\* A frame, a message, a command or an unbound command is queued or in hand.
Queued ==
    \/ channel # <<>>
    \/ \E p \in Processors : procChans[p] # <<>>
    \/ runMsg # Nil
    \/ commands # <<>>
    \/ unboundChan # <<>>

\* C30: while anything is queued some task of the pipeline can take a step.
DeadlockFree == Queued => ENABLED NextStop

====
